---- MODULE Spec2Model ----
(***************************************************************************)
(* Connection lifecycle of the two gateway connectors of openbutter:       *)
(*   - the Node connector   (src/src/services/butter-connector.cjs)        *)
(*   - the browser connector (src/src/services/butter-connector-browser.js,*)
(*     second class of the file, lines 111-370)                            *)
(* Each handler of the source is an operator from a connector record to a  *)
(* connector record, so that a handler that calls another handler is the   *)
(* composition of the two operators.  Each action of the specification is  *)
(* one run-to-completion callback of the JavaScript event loop.            *)
(***************************************************************************)
EXTENDS Integers, Sequences, FiniteSets, TLC

(* ------------------------------ bounds -------------------------------- *)
\* sockets that a connector no longer references (connect() replaced them or
\* disconnect() dropped them) and that still have events to deliver
MaxStale == 1
\* connection timeouts still pending whose handle connect() has overwritten
MaxStaleTimers == 1
\* consecutive reconnect attempts
MaxAttempts == 4
\* calls of send() made by the caller
MaxSends == 2

(* ------------------------- program constants -------------------------- *)
\* options.reconnectInterval, as configured by the backoff tests
reconnectInterval == 50
\* options.maxReconnectInterval, as configured by the backoff tests
maxReconnectInterval == 200
\* options.reconnectDecay (defaultOptions)
reconnectDecay == 2

(* ------------------------------ helpers ------------------------------- *)
RECURSIVE Pow(_, _)
\* Math.pow(b, e) for a natural exponent
Pow(b, e) == IF e <= 0 THEN 1 ELSE b * Pow(b, e - 1)

\* Math.min
Min(a, b) == IF a <= b THEN a ELSE b

\* lifecycle of one `ws` WebSocket object; readyState is read off it:
\*   null        no socket (this.ws is null)
\*   CONNECTING  readyState 0
\*   OPEN        readyState 1
\*   CLOSING     readyState 2, was open, its 'close' event still to come
\*   ABORTED     readyState 2, closed/terminated before it opened: its
\*               'error' and 'close' events are still to come
\*   CLOSED      readyState 3, every event delivered
SocketStates == {"null", "CONNECTING", "OPEN", "CLOSING", "ABORTED", "CLOSED"}
\* a socket in one of these states still delivers events to its handlers
LiveStates == {"CONNECTING", "OPEN", "CLOSING", "ABORTED"}

\* an event handed to the listeners: its type and what its payload carries
\* (attempt and delay of `reconnecting`, the id of a `message`; 0 otherwise)
Event(type, attempt, delay) ==
    [type |-> type, attempt |-> attempt, delay |-> delay, id |-> 0]

\* the `message` event of a frame with this id
MessageEvent(id) == [type |-> "message", attempt |-> 0, delay |-> 0, id |-> id]

(* ============================ Node connector ========================== *)
VARIABLES
    ws,                        \* this.ws: the lifecycle state of the socket it
                               \* references, "null" for null
    connected,                 \* this._connected
    shouldReconnect,           \* this._shouldReconnect
    reconnectAttempts,         \* this.reconnectAttempts
    reconnectTimer,            \* this.reconnectTimer is a pending timeout
    heartbeatTimer,            \* this.heartbeatTimer is a running interval
    connectionTimer,           \* this.connectionTimer is a pending timeout
    messageQueue,              \* this.messageQueue
    messageId,                 \* this.messageId
    pendingRequests,           \* this.pendingRequests: set of [id, k]
    currentReconnectInterval,  \* this.currentReconnectInterval
    stale,                     \* the live sockets this.ws no longer references:
                               \* how many there are in each live state
    staleTimers,               \* pending connection timeouts that
                               \* this.connectionTimer no longer references
    lostReconnectTimers,       \* pending reconnect timeouts that
                               \* this.reconnectTimer no longer references
    wire,                      \* history: what ws.send() was given, in order
    sent,                      \* history: number of send() calls so far
    emitted,                   \* history: events emitted by the last callback
    callbackCalls,             \* history: calls of the reply callback of message k
    timerFired,                \* history: the timer whose callback the last step ran
    callerDisconnected,        \* history: disconnect() was called, connect() not since
    sendReturn,                \* history: what the last step's send() returned
    budget                     \* the bounds of this run, drawn by Init

nodeVars == <<ws, connected, shouldReconnect, reconnectAttempts, reconnectTimer,
              heartbeatTimer, connectionTimer, messageQueue, messageId,
              pendingRequests, currentReconnectInterval, stale, staleTimers,
              lostReconnectTimers, wire, sent, emitted, callbackCalls, timerFired, callerDisconnected,
              sendReturn, budget>>

(* the browser connector's state; its operations follow the Node connector's *)
VARIABLES
    b_ws,                  \* this.ws: lifecycle state of the socket, "null" for null
    b_connected,           \* this.connected
    b_reconnectAttempts,   \* this.reconnectAttempts
    b_connectRequestId,    \* this.connectRequestId: n for 'req-' + n, 0 for null
    b_shouldReconnect,     \* this.shouldReconnect
    b_pingInterval,        \* this.pingInterval is a running interval
    b_pongTimeout,         \* this.pongTimeout is a pending timeout
    b_missedPongs,         \* this.missedPongs
    b_stale,               \* the live sockets this.ws no longer references
    b_reconnectTimers,     \* pending setTimeout(() => this.connect(), delay)
    b_clock,               \* the last value Date.now() returned to _sendHandshake
    b_emitted,             \* history: events dispatched by the last callback
    b_out,                 \* history: frames the last callback gave to ws.send()
    b_scheduled,           \* history: delays of the timeouts the last callback set
    b_timerFired,          \* history: the timer whose callback the last step ran
    b_callerDisconnected,  \* history: disconnect() was called, connect() not since
    b_threw,               \* history: the caller's call in the last step threw
    b_requested,           \* history: id of the connect request handed to the
                           \* socket this.ws references, 0 if it was handed none
    b_gaveUp,              \* history: `reconnect_failed` was dispatched, and the
                           \* caller has not called connect() since
    b_budget               \* the bounds of this run, drawn by Init

browserVars == <<b_ws, b_connected, b_reconnectAttempts, b_connectRequestId,
                 b_shouldReconnect, b_pingInterval, b_pongTimeout, b_missedPongs,
                 b_stale, b_reconnectTimers, b_clock, b_emitted, b_out,
                 b_scheduled, b_timerFired, b_callerDisconnected, b_threw,
                 b_requested, b_gaveUp, b_budget>>

(* the state of a ButterStore and of the localStorage item it persists to *)
VARIABLES
    s_state,        \* #state: key -> value; "undefined" for a key that holds
                    \* undefined or is absent
    s_subscribers,  \* #subscribers: key -> its callbacks, in insertion order
    s_destroyed,    \* #isDestroyed
    s_storage,      \* the localStorage item 'butter-store'
    s_op,           \* history: the last call and its arguments
    s_called,       \* history: the subscriber calls the last call made, in order
    s_events,       \* history: the events the last call dispatched, in order
    s_return,       \* history: what the last call returned
    s_threw         \* history: an exception left the last call

storeVars == <<s_state, s_subscribers, s_destroyed, s_storage, s_op, s_called,
               s_events, s_return, s_threw>>

vars == <<nodeVars, browserVars, storeVars>>

\* The runs explored are of two kinds.  A lifecycle run has a caller that only
\* connects and disconnects, and goes as deep into stale sockets, stale
\* timeouts and consecutive failures as the bounds allow.  A messaging run has
\* a caller that also sends; it keeps one stale socket and one stale timeout
\* (which is what a second connect() needs), and a socket that fails is
\* followed by one that opens.
Profiles ==
    {[stale |-> MaxStale, timers |-> MaxStaleTimers, attempts |-> MaxAttempts,
      sends |-> 0],
     [stale |-> 1, timers |-> 1, attempts |-> 1, sends |-> MaxSends]}

\* the connector as one record
Cur ==
    [ws |-> ws, connected |-> connected, shouldReconnect |-> shouldReconnect,
     reconnectAttempts |-> reconnectAttempts, reconnectTimer |-> reconnectTimer,
     heartbeatTimer |-> heartbeatTimer, connectionTimer |-> connectionTimer,
     messageQueue |-> messageQueue, messageId |-> messageId,
     pendingRequests |-> pendingRequests,
     currentReconnectInterval |-> currentReconnectInterval,
     stale |-> stale, staleTimers |-> staleTimers,
     lostReconnectTimers |-> lostReconnectTimers, wire |-> wire, sent |-> sent,
     emitted |-> emitted, callbackCalls |-> callbackCalls, timerFired |-> timerFired,
     callerDisconnected |-> callerDisconnected, sendReturn |-> sendReturn]

\* the connector at the start of a callback: the per-step history is blank
Begin == [Cur EXCEPT !.emitted = <<>>, !.timerFired = "none", !.sendReturn = "none"]

\* the next state is the record c
Commit(c) ==
    /\ ws' = c.ws
    /\ connected' = c.connected
    /\ shouldReconnect' = c.shouldReconnect
    /\ reconnectAttempts' = c.reconnectAttempts
    /\ reconnectTimer' = c.reconnectTimer
    /\ heartbeatTimer' = c.heartbeatTimer
    /\ connectionTimer' = c.connectionTimer
    /\ messageQueue' = c.messageQueue
    /\ messageId' = c.messageId
    /\ pendingRequests' = c.pendingRequests
    /\ currentReconnectInterval' = c.currentReconnectInterval
    /\ stale' = c.stale
    /\ staleTimers' = c.staleTimers
    /\ lostReconnectTimers' = c.lostReconnectTimers
    /\ wire' = c.wire
    /\ sent' = c.sent
    /\ emitted' = c.emitted
    /\ callbackCalls' = c.callbackCalls
    /\ timerFired' = c.timerFired
    /\ callerDisconnected' = c.callerDisconnected
    /\ sendReturn' = c.sendReturn
    /\ budget' = budget

\* constructor
NodeInit ==
    /\ budget \in Profiles
    /\ ws = "null"
    /\ connected = FALSE
    /\ shouldReconnect = TRUE
    /\ reconnectAttempts = 0
    /\ reconnectTimer = FALSE
    /\ heartbeatTimer = FALSE
    /\ connectionTimer = FALSE
    /\ messageQueue = <<>>
    /\ messageId = 0
    /\ pendingRequests = {}
    /\ currentReconnectInterval = reconnectInterval
    /\ stale = [s \in LiveStates |-> 0]
    /\ staleTimers = 0
    /\ lostReconnectTimers = 0
    /\ wire = <<>>
    /\ sent = 0
    /\ emitted = <<>>
    /\ callbackCalls = [k \in 1..MaxSends |-> 0]
    /\ timerFired = "none"
    /\ callerDisconnected = FALSE
    /\ sendReturn = "none"

\* this.emit(type, ...)
Emit(c, e) == [c EXCEPT !.emitted = Append(@, e)]


\* this.ws?.readyState === WebSocket.OPEN
IsOpen(c) == c.ws = "OPEN"

\* isConnected()
IsConnected(c) == c.connected /\ c.ws = "OPEN"

\* number of live sockets the connector no longer references
StaleCount(c) == c.stale["CONNECTING"] + c.stale["OPEN"] + c.stale["CLOSING"]
                 + c.stale["ABORTED"]

\* the model's bounds hold of c
WithinBounds(c) ==
    /\ StaleCount(c) <= budget.stale
    /\ c.staleTimers <= budget.timers
    /\ c.reconnectAttempts <= budget.attempts

\* the next state is c, if c is within the bounds of the model; a step of the
\* Node connector leaves the browser connector alone
Step(c) == WithinBounds(c) /\ Commit(c) /\ UNCHANGED <<browserVars, storeVars>>

\* ws.close() and ws.terminate() of the `ws` library: a socket that has not
\* opened is aborted (its 'error' and 'close' follow), an open one starts
\* closing (its 'close' follows), a closing or closed one is left alone
CloseSocket(st) ==
    CASE st = "CONNECTING" -> "ABORTED"
      [] st = "OPEN" -> "CLOSING"
      [] OTHER -> st

\* this.ws = next: the socket this.ws referenced keeps its handlers, and is
\* from now on one of the stale sockets if it is live
Reassign(c, next) ==
    [c EXCEPT !.ws = next,
              !.stale = IF c.ws \in LiveStates
                        THEN [@ EXCEPT ![c.ws] = @ + 1]
                        ELSE @]

\* a socket, the current one ("cur") or a stale one, is in state st
SocketIn(c, src, st) == IF src = "cur" THEN c.ws = st ELSE c.stale[st] > 0

\* that socket moves from state `from` to state `to`
MoveSocket(c, src, from, to) ==
    IF src = "cur" THEN [c EXCEPT !.ws = to]
    ELSE [c EXCEPT !.stale =
            [s \in LiveStates |->
               @[s] - (IF s = from THEN 1 ELSE 0) + (IF s = to THEN 1 ELSE 0)]]

SocketSources == {"cur", "stale"}

\* _startHeartbeat()
StartHeartbeat(c) == [c EXCEPT !.heartbeatTimer = TRUE]

\* _stopHeartbeat()
StopHeartbeat(c) == [c EXCEPT !.heartbeatTimer = FALSE]

\* generateId() as it would be if the counter did not advance past 1
GenerateIdReused(c) == [c EXCEPT !.messageId = 1]

\* generateId(): ++this.messageId; the id returned is the new messageId (the
\* counter stays far below 2^53, where ++ on a JavaScript number is exact)
GenerateId(c) == [c EXCEPT !.messageId = @ + 1]

\* _sendInternal(method, params, callback) for message m = [k, cb]
SendInternal(c, m) ==
    IF ~IsOpen(c) THEN [c EXCEPT !.sendReturn = "false"]
    ELSE LET c1 == GenerateId(c)
             id == c1.messageId
             c2 == IF m.cb
                   THEN [c1 EXCEPT !.pendingRequests =
                            {p \in @ : p.id # id} \cup {[id |-> id, k |-> m.k]}]
                   ELSE c1
         IN  [c2 EXCEPT !.wire = Append(@, [k |-> m.k, id |-> id]),
                        !.sendReturn = "true"]

RECURSIVE FlushQueue(_)
\* _flushQueue(): while (queue.length > 0 && _connected) _sendInternal(queue.shift())
FlushQueue(c) ==
    IF Len(c.messageQueue) > 0 /\ c.connected
    THEN FlushQueue(SendInternal([c EXCEPT !.messageQueue = Tail(@)],
                                 Head(c.messageQueue)))
    ELSE c

\* disconnect()
Disconnect(c) ==
    LET c1 == [c EXCEPT !.shouldReconnect = FALSE, !.reconnectTimer = FALSE,
                        !.connectionTimer = FALSE]
        c2 == StopHeartbeat(c1)
        c3 == IF c2.ws # "null"
              THEN Reassign([c2 EXCEPT !.ws = CloseSocket(@)], "null")
              ELSE c2
    IN  [c3 EXCEPT !.connected = FALSE]

\* what the listeners do while a callback dispatches its events: nothing; or
\* the listener of `reconnecting` calls disconnect() (as the disconnection
\* test does); or a listener of `disconnected` throws, and the exception
\* leaves emit() (events.EventEmitter) and the handler that called it
ListenerChoices == {"none", "disconnect", "throw"}

\* the listener runs; a timer callback that emitted the event fired before
\* the listener's disconnect() was called
RunListener(c, l) ==
    IF l = "disconnect"
    THEN [Disconnect(c) EXCEPT !.callerDisconnected = TRUE, !.timerFired = "none"]
    ELSE c

\* min(reconnectInterval * decay^(attempts - 1), maxReconnectInterval)
BackoffDelay(attempts) ==
    Min(reconnectInterval * Pow(reconnectDecay, attempts - 1), maxReconnectInterval)

\* this.reconnectTimer = setTimeout(...): a timeout that the field still
\* references stays pending, and nothing references it any more
SetReconnectTimer(c) ==
    [c EXCEPT !.lostReconnectTimers = IF c.reconnectTimer THEN @ + 1 ELSE @,
              !.reconnectTimer = TRUE]

\* _scheduleReconnect() as it would be without the test of this.reconnectTimer
ScheduleReconnectUnguarded(c, l) ==
    LET c1 == [c EXCEPT !.reconnectAttempts = @ + 1]
        delay == BackoffDelay(c1.reconnectAttempts)
        c2 == [c1 EXCEPT !.currentReconnectInterval = delay]
        c3 == Emit(c2, Event("reconnecting", c2.reconnectAttempts, delay))
    IN  SetReconnectTimer(RunListener(c3, l))

\* _scheduleReconnect()
ScheduleReconnect(c, l) ==
    IF c.reconnectTimer THEN c
    ELSE LET c1 == [c EXCEPT !.reconnectAttempts = @ + 1]
             delay == BackoffDelay(c1.reconnectAttempts)
             c2 == [c1 EXCEPT !.currentReconnectInterval = delay]
             c3 == Emit(c2, Event("reconnecting", c2.reconnectAttempts, delay))
             c4 == RunListener(c3, l)
         IN  SetReconnectTimer(c4)

\* _handleOpen() as it would be without the reset of the backoff state
HandleOpenKeepsBackoff(c) ==
    LET c1 == [c EXCEPT !.connected = TRUE, !.connectionTimer = FALSE]
        c2 == FlushQueue(c1)
        c3 == StartHeartbeat(c2)
    IN  Emit(c3, Event("connected", 0, 0))

\* _handleOpen()
HandleOpen(c) ==
    LET c1 == [c EXCEPT !.connected = TRUE, !.reconnectAttempts = 0,
                        !.currentReconnectInterval = reconnectInterval,
                        !.connectionTimer = FALSE]
        c2 == FlushQueue(c1)
        c3 == StartHeartbeat(c2)
    IN  Emit(c3, Event("connected", 0, 0))

\* _handleMessage(data) as it would be without pendingRequests.delete(id)
HandleMessageKeepsPending(c, frame) ==
    IF ~frame.json THEN Emit(c, Event("error", 0, 0))
    ELSE LET hit == {p \in c.pendingRequests : p.id = frame.id}
             c1 == IF frame.id # 0 /\ hit # {}
                   THEN LET p == CHOOSE q \in hit : TRUE
                        IN  [c EXCEPT !.callbackCalls[p.k] = @ + 1]
                   ELSE c
         IN  Emit(c1, MessageEvent(frame.id))

\* _handleMessage(data) as it would be if JSON.parse never threw
HandleMessageWithoutCatch(c, frame) ==
    LET hit == {p \in c.pendingRequests : p.id = frame.id}
        c1 == IF frame.id # 0 /\ hit # {}
              THEN LET p == CHOOSE q \in hit : TRUE
                   IN  [c EXCEPT !.pendingRequests = @ \ hit,
                                 !.callbackCalls[p.k] = @ + 1]
              ELSE c
    IN  Emit(c1, MessageEvent(frame.id))

\* _handleMessage(data) for a frame [json, id]; id 0 is a frame without id
HandleMessage(c, frame) ==
    IF ~frame.json THEN Emit(c, Event("error", 0, 0))
    ELSE LET hit == {p \in c.pendingRequests : p.id = frame.id}
             c1 == IF frame.id # 0 /\ hit # {}
                   THEN LET p == CHOOSE q \in hit : TRUE
                        IN  [c EXCEPT !.pendingRequests = @ \ hit,
                                      !.callbackCalls[p.k] = @ + 1]
                   ELSE c
         IN  Emit(c1, MessageEvent(frame.id))

\* _handleClose(code, reason)
HandleClose(c, l) ==
    LET c1 == StopHeartbeat([c EXCEPT !.connected = FALSE])
        c2 == Emit(c1, Event("disconnected", 0, 0))
    IN  IF l = "throw" THEN c2
        ELSE IF c2.shouldReconnect THEN ScheduleReconnect(c2, l) ELSE c2

\* _handleError(error)
HandleError(c, l) ==
    LET c1 == Emit(c, Event("error", 0, 0))
    IN  IF ~c1.connected /\ c1.shouldReconnect THEN ScheduleReconnect(c1, l) ELSE c1

\* connect(): a new socket and a new connection timeout; neither the socket
\* nor the timeout it replaces is closed or cleared
Connect(c) ==
    IF IsOpen(c) THEN c
    ELSE LET c1 == Reassign([c EXCEPT !.shouldReconnect = TRUE], "CONNECTING")
         IN  [c1 EXCEPT !.staleTimers = IF c.connectionTimer THEN @ + 1 ELSE @,
                        !.connectionTimer = TRUE]

\* the connection timeout callback
ConnectionTimedOut(c, l) ==
    IF ~IsOpen(c)
    THEN HandleError([c EXCEPT !.ws = CloseSocket(@)], l)
    ELSE c

\* send(method, params, callback) for message m
Send(c, m) ==
    IF c.connected THEN SendInternal(c, m)
    ELSE [c EXCEPT !.messageQueue = Append(@, m), !.sendReturn = "false"]

(* ------------------------- actions: the caller ------------------------ *)
CallConnect ==
    Step([Connect(Begin) EXCEPT !.callerDisconnected = FALSE])

CallDisconnect ==
    Step([Disconnect(Begin) EXCEPT !.callerDisconnected = TRUE])

CallSend ==
    /\ sent < budget.sends
    /\ \E cb \in BOOLEAN :
         Step(Send([Begin EXCEPT !.sent = @ + 1], [k |-> sent + 1, cb |-> cb]))

(* ------------------------- actions: the socket ------------------------ *)
\* 'open' of a socket
WsOpen ==
    \E src \in SocketSources :
      /\ SocketIn(Cur, src, "CONNECTING")
      /\ Step(HandleOpen(MoveSocket(Begin, src, "CONNECTING", "OPEN")))

\* the connection attempt of a socket fails: `ws` emits 'error', then 'close'
WsFail ==
    \E src \in SocketSources, l \in ListenerChoices :
      /\ SocketIn(Cur, src, "CONNECTING")
      /\ Step(HandleClose(
                HandleError(MoveSocket(Begin, src, "CONNECTING", "CLOSED"), l), l))

\* an aborted socket delivers its 'error', then its 'close'
WsAbort ==
    \E src \in SocketSources, l \in ListenerChoices :
      /\ SocketIn(Cur, src, "ABORTED")
      /\ Step(HandleClose(
                HandleError(MoveSocket(Begin, src, "ABORTED", "CLOSED"), l), l))

\* the peer closes, or the link drops: readyState leaves OPEN before 'close'
WsPeerClose ==
    \E src \in SocketSources :
      /\ SocketIn(Cur, src, "OPEN")
      /\ Step(MoveSocket(Begin, src, "OPEN", "CLOSING"))

\* 'close' of a socket that was open
WsClose ==
    \E src \in SocketSources, l \in ListenerChoices :
      /\ SocketIn(Cur, src, "CLOSING")
      /\ Step(HandleClose(MoveSocket(Begin, src, "CLOSING", "CLOSED"), l))

\* 'message' of a socket
WsMessage ==
    \E src \in SocketSources, json \in BOOLEAN, id \in 0..MaxSends :
      /\ SocketIn(Cur, src, "OPEN") \/ SocketIn(Cur, src, "CLOSING")
      /\ Step(HandleMessage(Begin, [json |-> json, id |-> id]))

\* 'pong' of a socket: _handlePong()
WsPong ==
    \E src \in SocketSources :
      /\ SocketIn(Cur, src, "OPEN")
      /\ Step(Emit(Begin, Event("heartbeat", 0, 0)))

(* ------------------------- actions: the timers ------------------------ *)
\* the reconnect timeout fires: reconnectTimer = null; connect()
ReconnectFire ==
    /\ reconnectTimer
    /\ Step(Connect([Begin EXCEPT !.reconnectTimer = FALSE,
                                  !.timerFired = "reconnect"]))

\* a connection timeout fires: the one this.connectionTimer references
\* ("cur") or one whose handle a later connect() has overwritten ("stale")
ConnectionTimeout ==
    \E src \in SocketSources, l \in ListenerChoices :
      /\ IF src = "cur" THEN connectionTimer ELSE staleTimers > 0
      /\ Step(ConnectionTimedOut(
                [Begin EXCEPT !.connectionTimer = IF src = "cur" THEN FALSE ELSE @,
                              !.staleTimers = IF src = "stale" THEN @ - 1 ELSE @,
                              !.timerFired = "connection"], l))

\* the heartbeat interval ticks: ws.ping() if the socket is open
HeartbeatTick ==
    /\ heartbeatTimer
    /\ Step([Begin EXCEPT !.timerFired = "heartbeat"])

NodeNext ==
    \/ CallConnect
    \/ CallDisconnect
    \/ CallSend
    \/ WsOpen
    \/ WsFail
    \/ WsAbort
    \/ WsPeerClose
    \/ WsClose
    \/ WsMessage
    \/ WsPong
    \/ ReconnectFire
    \/ ConnectionTimeout
    \/ HeartbeatTick

(* =========================== browser connector ======================== *)
\* this.maxReconnectAttempts
maxReconnectAttempts == 5
\* this.reconnectDelay
reconnectDelay == 1000
\* this.pingIntervalMs
pingIntervalMs == 5000
\* this.pongTimeoutMs
pongTimeoutMs == 3000
\* this.maxMissedPongs
maxMissedPongs == 2

\* reconnect timeouts pending at once (their handles are not kept)
MaxReconnectTimers == 1
\* distinct values Date.now() takes when a handshake is sent
MaxClock == 1

\* The runs explored go as deep as its bound allows into one of the three:
\* sockets replaced and still live, reconnect timeouts pending at once,
\* handshakes sent; and keep one of each of the other two.
BProfiles ==
    {[stale |-> MaxStale, timers |-> 1, clock |-> 1],
     [stale |-> 1, timers |-> MaxReconnectTimers, clock |-> 1],
     [stale |-> 1, timers |-> 1, clock |-> MaxClock]}

\* the connector as one record
BCur ==
    [ws |-> b_ws, connected |-> b_connected,
     reconnectAttempts |-> b_reconnectAttempts,
     connectRequestId |-> b_connectRequestId, shouldReconnect |-> b_shouldReconnect,
     pingInterval |-> b_pingInterval, pongTimeout |-> b_pongTimeout,
     missedPongs |-> b_missedPongs, stale |-> b_stale,
     reconnectTimers |-> b_reconnectTimers, clock |-> b_clock,
     emitted |-> b_emitted, out |-> b_out, scheduled |-> b_scheduled,
     timerFired |-> b_timerFired, callerDisconnected |-> b_callerDisconnected,
     threw |-> b_threw, requested |-> b_requested,
     gaveUp |-> b_gaveUp]

\* the connector at the start of a callback: the per-step history is blank
BBegin == [BCur EXCEPT !.emitted = <<>>, !.out = <<>>, !.scheduled = <<>>,
                       !.timerFired = "none", !.threw = FALSE]

\* the next state is the record c
BCommit(c) ==
    /\ b_ws' = c.ws
    /\ b_connected' = c.connected
    /\ b_reconnectAttempts' = c.reconnectAttempts
    /\ b_connectRequestId' = c.connectRequestId
    /\ b_shouldReconnect' = c.shouldReconnect
    /\ b_pingInterval' = c.pingInterval
    /\ b_pongTimeout' = c.pongTimeout
    /\ b_missedPongs' = c.missedPongs
    /\ b_stale' = c.stale
    /\ b_reconnectTimers' = c.reconnectTimers
    /\ b_clock' = c.clock
    /\ b_emitted' = c.emitted
    /\ b_out' = c.out
    /\ b_scheduled' = c.scheduled
    /\ b_timerFired' = c.timerFired
    /\ b_callerDisconnected' = c.callerDisconnected
    /\ b_threw' = c.threw
    /\ b_requested' = c.requested
    /\ b_gaveUp' = c.gaveUp
    /\ b_budget' = b_budget

\* the next state is c, if c is within the bounds of the model; a step of the
\* browser connector leaves the Node connector alone
BStep(c) ==
    /\ StaleCount(c) <= b_budget.stale
    /\ c.reconnectTimers <= b_budget.timers
    /\ c.clock <= b_budget.clock
    /\ BCommit(c)
    /\ UNCHANGED <<nodeVars, storeVars>>

\* constructor, in a run of the given bounds
BrowserStart(profile) ==
    /\ b_budget = profile
    /\ b_ws = "null"
    /\ b_connected = FALSE
    /\ b_reconnectAttempts = 0
    /\ b_connectRequestId = 0
    /\ b_shouldReconnect = TRUE
    /\ b_pingInterval = FALSE
    /\ b_pongTimeout = FALSE
    /\ b_missedPongs = 0
    /\ b_stale = [s \in LiveStates |-> 0]
    /\ b_reconnectTimers = 0
    /\ b_clock = 0
    /\ b_emitted = <<>>
    /\ b_out = <<>>
    /\ b_scheduled = <<>>
    /\ b_timerFired = "none"
    /\ b_callerDisconnected = FALSE
    /\ b_threw = FALSE
    /\ b_requested = 0
    /\ b_gaveUp = FALSE

BrowserInit == \E profile \in BProfiles : BrowserStart(profile)

\* the browser connector when it is not the subject
BrowserIdle == BrowserStart([stale |-> 1, timers |-> 1, clock |-> 1])

\* a frame given to ws.send()
Frame(type, id) == [type |-> type, id |-> id]

\* this.ws.send(frame) of the browser WebSocket: it throws while the socket is
\* connecting, hands the frame over while it is open, and discards the frame
\* silently once the socket is closing or closed.  "threw" tells the caller.
BWsSend(c, frame) ==
    CASE c.ws = "CONNECTING" -> [c EXCEPT !.threw = TRUE]
      [] c.ws = "OPEN" -> [c EXCEPT !.out = Append(@, frame)]
      [] OTHER -> c

\* _stopKeepalive() as it would be if it cleared the interval only
StopKeepaliveKeepsTimeout(c) == [c EXCEPT !.pingInterval = FALSE]

\* _stopKeepalive()
StopKeepalive(c) == [c EXCEPT !.pingInterval = FALSE, !.pongTimeout = FALSE]

\* _startKeepalive()
StartKeepalive(c) == [StopKeepalive(c) EXCEPT !.pingInterval = TRUE]

\* disconnect()
BDisconnect(c) ==
    LET c1 == StopKeepalive(c)
        c2 == IF c1.ws # "null"
              THEN Reassign([c1 EXCEPT !.ws = CloseSocket(@)], "null")
              ELSE c1
    IN  [c2 EXCEPT !.connected = FALSE, !.requested = 0]

\* connect(): a new socket with its own handlers
BConnect(c) ==
    Reassign([c EXCEPT !.shouldReconnect = TRUE, !.requested = 0], "CONNECTING")

\* reconnectDelay * 2^(attempts - 1)
BReconnectDelay(attempts) == reconnectDelay * Pow(2, attempts - 1)

\* _attemptReconnect()
AttemptReconnect(c) ==
    IF c.reconnectAttempts >= maxReconnectAttempts
    THEN [Emit(c, Event("reconnect_failed", 0, 0)) EXCEPT !.gaveUp = TRUE]
    ELSE LET c1 == [c EXCEPT !.reconnectAttempts = @ + 1]
         IN  [c1 EXCEPT !.scheduled = Append(@, BReconnectDelay(c1.reconnectAttempts)),
                        !.reconnectTimers = @ + 1]

\* ws.onclose
OnClose(c) ==
    LET c1 == StopKeepalive([c EXCEPT !.connected = FALSE])
        c2 == Emit(c1, Event("disconnected", 0, 0))
    IN  IF c2.shouldReconnect THEN AttemptReconnect(c2) ELSE c2

\* ws.onerror
OnError(c) == Emit(c, Event("error", 0, 0))

\* _sendHandshake(nonce): Date.now() returns t; an exception of ws.send() is
\* caught by the try of onmessage
SendHandshake(c, t) ==
    LET c1 == [c EXCEPT !.connectRequestId = t, !.clock = t]
    IN  IF c1.ws # "null"
        THEN [BWsSend(c1, Frame("connect", t)) EXCEPT
                 !.threw = FALSE,
                 !.requested = IF c1.ws = "OPEN" THEN t ELSE @]
        ELSE c1

\* _handlePong() as it would be without the reset of the counter
HandlePongKeepsMissed(c) == [c EXCEPT !.pongTimeout = FALSE]

\* _handlePong()
HandlePong(c) == [c EXCEPT !.missedPongs = 0, !.pongTimeout = FALSE]

\* _handlePongTimeout()
HandlePongTimeout(c) ==
    LET c1 == [c EXCEPT !.missedPongs = @ + 1]
    IN  IF c1.missedPongs >= maxMissedPongs THEN BDisconnect(c1) ELSE c1

\* _sendPing(): an exception of ws.send() is caught, and then no timeout is set
SendPing(c) ==
    IF ~c.connected \/ c.ws = "null" THEN c
    ELSE LET c1 == BWsSend(c, Frame("ping", 0))
         IN  IF c1.threw THEN [c1 EXCEPT !.threw = FALSE]
             ELSE [c1 EXCEPT !.pongTimeout = TRUE]

\* inbound frames [kind, id, ok]: not JSON, the challenge event, a pong,
\* anything else, and a response with an id (0 for null) and an ok flag
BFrames ==
    {[kind |-> k, id |-> 0, ok |-> FALSE] : k \in {"garbage", "challenge", "pong", "other"}}
    \cup {[kind |-> "res", id |-> i, ok |-> o] : i \in 0..MaxClock, o \in BOOLEAN}

\* ws.onmessage for a frame [kind, id, ok]; t is what Date.now() returns
OnMessage(c, frame, t) ==
    CASE frame.kind = "garbage" -> c
      [] frame.kind = "challenge" -> SendHandshake(c, t)
      [] frame.kind = "res" /\ frame.id = c.connectRequestId ->
           IF frame.ok
           THEN LET c1 == [c EXCEPT !.connected = TRUE, !.reconnectAttempts = 0,
                                    !.missedPongs = 0]
                IN  Emit(StartKeepalive(c1), Event("connected", 0, 0))
           ELSE BDisconnect([c EXCEPT !.shouldReconnect = FALSE])
      [] frame.kind = "pong" -> HandlePong(c)
      [] OTHER -> Emit(c, MessageEvent(frame.id))

\* send(data) as it would be without the connected check
BSendUnguarded(c) == BWsSend(c, Frame("data", 0))

\* send(data)
BSend(c) ==
    IF ~c.connected \/ c.ws = "null" THEN [c EXCEPT !.threw = TRUE]
    ELSE BWsSend(c, Frame("data", 0))

(* ------------------------- actions: the caller ------------------------ *)
BCallConnect ==
    BStep([BConnect(BBegin) EXCEPT !.callerDisconnected = FALSE, !.gaveUp = FALSE])

BCallDisconnect ==
    BStep([BDisconnect(BBegin) EXCEPT !.callerDisconnected = TRUE])

BCallSend ==
    BStep(BSend(BBegin))

(* ------------------------- actions: the socket ------------------------ *)
\* ws.onopen: it only logs
BWsOpen ==
    \E src \in SocketSources :
      /\ SocketIn(BCur, src, "CONNECTING")
      /\ BStep(MoveSocket(BBegin, src, "CONNECTING", "OPEN"))

\* the connection attempt fails: the browser fires error, then close
BWsFail ==
    \E src \in SocketSources :
      /\ SocketIn(BCur, src, "CONNECTING")
      /\ BStep(OnClose(OnError(MoveSocket(BBegin, src, "CONNECTING", "CLOSED"))))

\* a socket closed before it opened fires error, then close
BWsAbort ==
    \E src \in SocketSources :
      /\ SocketIn(BCur, src, "ABORTED")
      /\ BStep(OnClose(OnError(MoveSocket(BBegin, src, "ABORTED", "CLOSED"))))

\* the peer starts the closing handshake: readyState leaves OPEN before close
BWsPeerClose ==
    \E src \in SocketSources :
      /\ SocketIn(BCur, src, "OPEN")
      /\ BStep(MoveSocket(BBegin, src, "OPEN", "CLOSING"))

\* close of a socket that was open
BWsClose ==
    \E src \in SocketSources :
      /\ SocketIn(BCur, src, "CLOSING")
      /\ BStep(OnClose(MoveSocket(BBegin, src, "CLOSING", "CLOSED")))

\* message of a socket
BWsMessage ==
    \E src \in SocketSources, frame \in BFrames :
      /\ SocketIn(BCur, src, "OPEN") \/ SocketIn(BCur, src, "CLOSING")
      /\ frame.id <= b_budget.clock
      /\ \E t \in IF frame.kind = "challenge"
                  THEN {b_clock, b_clock + 1} \ {0}
                  ELSE {b_clock} :
           BStep(OnMessage(BBegin, frame, t))

(* ------------------------- actions: the timers ------------------------ *)
\* the keepalive interval ticks; a pong timeout set by the tick before has
\* fired or been cleared by then, as pongTimeoutMs < pingIntervalMs
BPingTick ==
    /\ b_pingInterval
    /\ pongTimeoutMs < pingIntervalMs => ~b_pongTimeout
    /\ BStep(SendPing([BBegin EXCEPT !.timerFired = "ping"]))

\* the pong timeout fires
BPongTimeout ==
    /\ b_pongTimeout
    /\ BStep(HandlePongTimeout([BBegin EXCEPT !.pongTimeout = FALSE,
                                              !.timerFired = "pong"]))

\* a reconnect timeout fires: connect()
BReconnectFire ==
    /\ b_reconnectTimers > 0
    /\ BStep(BConnect([BBegin EXCEPT !.reconnectTimers = @ - 1,
                                     !.timerFired = "reconnect"]))

BrowserNext ==
    \/ BCallConnect
    \/ BCallDisconnect
    \/ BCallSend
    \/ BWsOpen
    \/ BWsFail
    \/ BWsAbort
    \/ BWsPeerClose
    \/ BWsClose
    \/ BWsMessage
    \/ BPingTick
    \/ BPongTimeout
    \/ BReconnectFire

(* =============================== ButterStore ========================== *)
\* most subscriptions a store holds at a time
MaxSubscribers == 2

\* ButterStore.defaults, in the insertion order of #state
KeyOrder == <<"orchestrators", "messages", "activeOrchestrator", "connectionStatus">>

StoreKeys == {KeyOrder[i] : i \in 1..Len(KeyOrder)}

NON_PERSISTENT_KEYS == {"messages", "activeOrchestrator"}

\* values a caller stores under a key: the key's default, another value.
\* "undefined" is what a key holds that is absent from #state or from the
\* stored object.  They are atoms: deepClone returns an atom as it is,
\* deepEqual of two atoms is ===
StoreValues == {"default", "other"}

deepEqual(a, b) == a = b

deepClone(value) == value

\* the callbacks that are subscribed, and the one that throws when it is
\* called
Callbacks == {"throwing", "plain"}

Throws(id) == id = "throwing"

\* the subscribe(key, callback) calls that are made
SubscribeInputs ==
    {<<"connectionStatus", "throwing">>, <<"connectionStatus", "plain">>,
     <<"messages", "plain">>}

\* localStorage.getItem('butter-store'): no item, an item that is not JSON,
\* or the JSON of an object ("undefined" for a key the object does not have)
NoItem == [kind |-> "none", obj |-> [k \in StoreKeys |-> "undefined"]]

CorruptItem == [kind |-> "corrupt", obj |-> [k \in StoreKeys |-> "undefined"]]

ObjectItem(obj) == [kind |-> "object", obj |-> obj]

\* what the storage may hold when a store is first constructed: nothing,
\* garbage, or an object written by other code that has every key
InitialItems ==
    {NoItem, CorruptItem, ObjectItem([k \in StoreKeys |-> "other"])}

\* a call recorded in the history: its name, and of set() its key, its value
\* and options.silent
Call(name, key, value, silent) ==
    [name |-> name, key |-> key, value |-> value, silent |-> silent]

\* the store as one record
SCur ==
    [state |-> s_state, subscribers |-> s_subscribers, destroyed |-> s_destroyed,
     storage |-> s_storage, called |-> s_called, events |-> s_events,
     return |-> s_return, threw |-> s_threw]

\* the store at the start of a call: the per-call history is blank
SBegin == [SCur EXCEPT !.called = <<>>, !.events = <<>>, !.return = "none",
                       !.threw = FALSE]

\* number of subscriptions
Subscriptions(s) ==
    Len(s.subscribers[KeyOrder[1]]) + Len(s.subscribers[KeyOrder[2]])
    + Len(s.subscribers[KeyOrder[3]]) + Len(s.subscribers[KeyOrder[4]])

\* the next state is the record s after the call op; a call on the store
\* leaves the connectors alone
SStep(s, op) ==
    /\ Subscriptions(s) <= MaxSubscribers
    /\ s_state' = s.state
    /\ s_subscribers' = s.subscribers
    /\ s_destroyed' = s.destroyed
    /\ s_storage' = s.storage
    /\ s_called' = s.called
    /\ s_events' = s.events
    /\ s_return' = s.return
    /\ s_threw' = s.threw
    /\ s_op' = op
    /\ UNCHANGED <<nodeVars, browserVars>>

\* #restoreFromStorage(): JSON.parse of garbage throws and is caught; only the
\* default keys that are not NON_PERSISTENT_KEYS are taken from the object
RestoreFromStorage(s) ==
    IF s.storage.kind = "object"
    THEN [s EXCEPT !.state =
            [k \in StoreKeys |->
               IF k \notin NON_PERSISTENT_KEYS /\ s.storage.obj[k] # "undefined"
               THEN deepClone(s.storage.obj[k])
               ELSE @[k]]]
    ELSE s

\* #persistToStorage() as it would be without the NON_PERSISTENT_KEYS filter
PersistEverything(s, full) ==
    IF full THEN s
    ELSE [s EXCEPT !.storage = ObjectItem(s.state)]

\* #persistToStorage(): JSON.stringify leaves out the keys that hold
\* undefined; setItem throws when the storage is full, which is caught
PersistToStorage(s, full) ==
    IF full THEN s
    ELSE [s EXCEPT !.storage =
            ObjectItem([k \in StoreKeys |->
                          IF k \in NON_PERSISTENT_KEYS THEN "undefined"
                          ELSE s.state[k]])]

RECURSIVE CallEach(_, _, _, _)
\* the loop of #notifySubscribers over the callbacks cbs: each is called, and
\* what it throws is caught
CallEach(s, cbs, value, previousValue) ==
    IF cbs = <<>> THEN s
    ELSE CallEach([s EXCEPT !.called = Append(@, [id |-> Head(cbs), value |-> value,
                                                   previousValue |-> previousValue])],
                  Tail(cbs), value, previousValue)

\* #notifySubscribers(key, value, previousValue) as it would be without the
\* try/catch around the callback: the first callback that throws ends the
\* loop, and its exception leaves the call
NotifyUncaught(s, key, value, previousValue) ==
    LET cbs == s.subscribers[key]
        thrown == {i \in 1..Len(cbs) : Throws(cbs[i])}
        last == IF thrown = {} THEN Len(cbs)
                ELSE CHOOSE i \in thrown : \A j \in thrown : i <= j
    IN  [s EXCEPT !.called = @ \o [i \in 1..last |->
                                     [id |-> cbs[i], value |-> value,
                                      previousValue |-> previousValue]],
                  !.threw = thrown # {}]

\* #notifySubscribers(key, value, previousValue)
NotifySubscribers(s, key, value, previousValue) ==
    CallEach(s, s.subscribers[key], value, previousValue)

\* #emitChange(key, value, previousValue, isBatch): `change`, `change:<key>`,
\* then the subscribers; of an event its type is recorded, not its detail
EmitChange(s, key, value, previousValue, isBatch) ==
    LET s1 == [s EXCEPT !.events = @ \o <<[type |-> "change", key |-> ""],
                                          [type |-> "change:", key |-> key]>>]
    IN  NotifySubscribers(s1, key, value, previousValue)

\* set(key, value, {silent, batch}); the return value is recorded
StoreSet(s, key, value, silent, batch, full) ==
    IF s.destroyed THEN [s EXCEPT !.return = "false"]
    ELSE LET previousValue == s.state[key]
             clonedValue == deepClone(value)
         IN  IF deepEqual(previousValue, clonedValue) THEN [s EXCEPT !.return = "false"]
             ELSE LET s1 == [s EXCEPT !.state[key] = clonedValue]
                      s2 == IF key \notin NON_PERSISTENT_KEYS /\ ~batch
                            THEN PersistToStorage(s1, full) ELSE s1
                      s3 == IF ~silent
                            THEN EmitChange(s2, key, clonedValue, previousValue, batch)
                            ELSE s2
                  IN  [s3 EXCEPT !.return = "true"]

RECURSIVE EmitChanges(_, _, _, _)
\* the key-specific events of batch(): #emitChange for the changed keys of
\* the sequence keys, old being #state before the batch
EmitChanges(s, keys, old, draft) ==
    IF keys = <<>> THEN s
    ELSE LET k == Head(keys)
             s1 == IF ~deepEqual(old[k], draft[k])
                   THEN EmitChange(s, k, draft[k], old[k], TRUE)
                   ELSE s
         IN  EmitChanges(s1, Tail(keys), old, draft)

\* batch(updater): draft is the draft object as the updater leaves it
StoreBatch(s, draft, full) ==
    IF s.destroyed THEN s
    ELSE LET changed == {k \in StoreKeys : ~deepEqual(s.state[k], draft[k])}
             s1 == [s EXCEPT !.state = [k \in StoreKeys |-> deepClone(draft[k])]]
             s2 == PersistToStorage(s1, full)
         IN  IF changed # {}
             THEN EmitChanges(
                    [s2 EXCEPT !.events = Append(@, [type |-> "change", key |-> ""])],
                    KeyOrder, s.state, draft)
             ELSE s2

RECURSIVE SetDefaults(_, _, _)
\* the loop of reset(): set(key, default) for every key of the defaults
SetDefaults(s, keys, full) ==
    IF keys = <<>> THEN s
    ELSE SetDefaults(StoreSet(s, Head(keys), "default", FALSE, FALSE, full),
                     Tail(keys), full)

\* reset(clearStorage)
StoreReset(s, clearStorage, full) ==
    IF s.destroyed THEN s
    ELSE LET s1 == [SetDefaults(s, KeyOrder, full) EXCEPT !.return = "none"]
         IN  IF clearStorage THEN [s1 EXCEPT !.storage = NoItem] ELSE s1

\* subscribe(key, callback): #subscribers.get(key) is a Set
Subscribe(s, key, id) ==
    IF s.destroyed THEN s
    ELSE IF \E i \in 1..Len(s.subscribers[key]) : s.subscribers[key][i] = id THEN s
    ELSE [s EXCEPT !.subscribers[key] = Append(@, id)]

\* the function subscribe() returned
Unsubscribe(s, key, id) ==
    IF s.destroyed THEN s
    ELSE [s EXCEPT !.subscribers[key] = SelectSeq(@, LAMBDA x : x # id)]

\* destroy()
Destroy(s) ==
    IF s.destroyed THEN s
    ELSE [s EXCEPT !.subscribers = [k \in StoreKeys |-> <<>>],
                   !.state = [k \in StoreKeys |-> "undefined"],
                   !.destroyed = TRUE]

\* constructor: the defaults, then what #restoreFromStorage takes
Construct(s) ==
    RestoreFromStorage([s EXCEPT !.state = [k \in StoreKeys |-> "default"],
                                 !.subscribers = [k \in StoreKeys |-> <<>>],
                                 !.destroyed = FALSE])

\* a store that has just been constructed over item
Constructed(item) ==
    Construct([state |-> [k \in StoreKeys |-> "default"],
               subscribers |-> [k \in StoreKeys |-> <<>>], destroyed |-> FALSE,
               storage |-> item, called |-> <<>>, events |-> <<>>,
               return |-> "none", threw |-> FALSE])

\* the store of a given initial item, constructed
StoreStart(item) ==
    /\ s_state = Constructed(item).state
    /\ s_subscribers = Constructed(item).subscribers
    /\ s_destroyed = FALSE
    /\ s_storage = item
    /\ s_op = Call("construct", "", "", FALSE)
    /\ s_called = <<>>
    /\ s_events = <<>>
    /\ s_return = "none"
    /\ s_threw = FALSE

\* the store when it is not the subject: constructed over an empty storage
StoreIdle == StoreStart(NoItem)

StoreInit == \E item \in InitialItems : StoreStart(item)

(* ------------------------------ actions ------------------------------- *)
CallSet ==
    \E key \in StoreKeys, value \in StoreValues, silent \in BOOLEAN, batch \in BOOLEAN :
      \* whether the storage is full matters to a call that writes to it
      \E full \in IF key \in NON_PERSISTENT_KEYS \/ batch THEN {FALSE} ELSE BOOLEAN :
        SStep(StoreSet(SBegin, key, value, silent, batch, full),
              Call("set", key, value, silent))

CallBatch ==
    \E draft \in [StoreKeys -> StoreValues], full \in BOOLEAN :
      SStep(StoreBatch(SBegin, draft, full), Call("batch", "", "", FALSE))

CallReset ==
    \E clearStorage \in BOOLEAN, full \in BOOLEAN :
      SStep(StoreReset(SBegin, clearStorage, full), Call("reset", "", "", FALSE))

CallSubscribe ==
    \E <<key, id>> \in SubscribeInputs :
      SStep(Subscribe(SBegin, key, id), Call("subscribe", key, "", FALSE))

CallUnsubscribe ==
    \E <<key, id>> \in SubscribeInputs :
      SStep(Unsubscribe(SBegin, key, id), Call("unsubscribe", key, "", FALSE))

CallDestroy ==
    SStep(Destroy(SBegin), Call("destroy", "", "", FALSE))

\* new ButterStore() over the storage as it is (the page is loaded again)
CallConstruct ==
    SStep(Construct(SBegin), Call("construct", "", "", FALSE))

StoreNext ==
    \/ CallSet
    \/ CallBatch
    \/ CallReset
    \/ CallSubscribe
    \/ CallUnsubscribe
    \/ CallDestroy
    \/ CallConstruct

(* ============================ specifications ========================== *)
\* the Node connector, the browser connector never constructed into use
InitNode ==
    /\ NodeInit
    /\ BrowserIdle
    /\ StoreIdle

SpecNode == InitNode /\ [][NodeNext]_vars

\* the Node connector of a caller that connects and disconnects and never
\* sends (sending touches the queue, the wire and the pending requests only)
InitNodeLifecycle ==
    /\ NodeInit
    /\ budget.sends = 0
    /\ BrowserIdle
    /\ StoreIdle

NodeLifecycleNext ==
    \/ CallConnect
    \/ CallDisconnect
    \/ WsOpen
    \/ WsFail
    \/ WsAbort
    \/ WsPeerClose
    \/ WsClose
    \/ WsMessage
    \/ WsPong
    \/ ReconnectFire
    \/ ConnectionTimeout
    \/ HeartbeatTick

\* that connector with the event loop's guarantee that a timeout that stays
\* pending fires: the reconnect timeout set by _scheduleReconnect and the
\* connection timeouts set by connect()
SpecNodeFair ==
    /\ InitNodeLifecycle
    /\ [][NodeLifecycleNext]_vars
    /\ WF_vars(ReconnectFire)
    /\ WF_vars(ConnectionTimeout)

\* the browser connector, the Node connector idle
InitBrowser ==
    /\ NodeInit
    /\ budget.sends = 0
    /\ BrowserInit
    /\ StoreIdle

SpecBrowser == InitBrowser /\ [][BrowserNext]_vars

\* that connector with the event loop's guarantee that a timer that stays
\* pending fires: the keepalive interval, the pong timeout and the reconnect
\* timeouts.  What the server and the caller do is under no obligation.
SpecBrowserFair ==
    /\ InitBrowser
    /\ [][BrowserNext]_vars
    /\ WF_vars(BPingTick)
    /\ WF_vars(BPongTimeout)
    /\ WF_vars(BReconnectFire)

\* a ButterStore, the connectors idle
InitStore ==
    /\ NodeInit
    /\ budget.sends = 0
    /\ BrowserIdle
    /\ StoreInit

SpecStore == InitStore /\ [][StoreNext]_vars

(* ================================ claims ============================== *)
\* the messages of a queue or of the wire, by their send() number
Ks(s) == [i \in 1..Len(s) |-> s[i].k]

\* how often message k occurs in s
Count(s, k) == Cardinality({i \in 1..Len(s) : s[i].k = k})

\* the events of this type among those of s
OfType(s, type) == {i \in 1..Len(s) : s[i].type = type}

\* C1: whenever the Node connector opens (it emits `connected`), the messages
\* queued by send() while it was not connected have all been handed to the
\* transport by the flush, in the order they were submitted, each once, and
\* the queue is empty.
C1_FlushInOrder ==
    [][(emitted' = <<Event("connected", 0, 0)>>) =>
          /\ messageQueue' = <<>>
          /\ Ks(wire') = Ks(wire) \o Ks(messageQueue)]_vars

\* C2: every message passed to send() on the Node connector is either still in
\* the outbound queue or was handed to the transport exactly once, and send()
\* returns false only when it queued the message.
C2_NoLossNoDuplicate ==
    /\ \A k \in 1..sent : Count(messageQueue, k) + Count(wire, k) = 1
    /\ sendReturn = "false" => Count(messageQueue, sent) = 1

\* C3: after disconnect() has returned and until connect() is called again, no
\* timer of the connector fires and isConnected() is false.
C3_NoTimerAfterDisconnect ==
    callerDisconnected => (timerFired = "none" /\ ~IsConnected(Cur))

\* C4: after the caller's disconnect() and until the caller's connect(), no
\* reconnect attempt is scheduled, none is started, and no `reconnecting`
\* notification is emitted.
C4_NoReconnectAfterDisconnect ==
    b_callerDisconnected =>
        /\ b_scheduled = <<>>
        /\ b_timerFired # "reconnect"
        /\ OfType(b_emitted, "reconnecting") = {}

\* C5: the reconnect delay never exceeds maxReconnectInterval and does not
\* decrease from one failed attempt to the next; when the connector has just
\* opened, the attempt counter is 0 and the delay is reconnectInterval, and
\* the first failure after that is scheduled with reconnectInterval.
C5_BackoffMonotoneAndReset ==
    [][/\ currentReconnectInterval' <= maxReconnectInterval
       /\ (reconnectAttempts > 0 /\ reconnectAttempts' > reconnectAttempts) =>
             currentReconnectInterval' >= currentReconnectInterval
       /\ (emitted' = <<Event("connected", 0, 0)>>) =>
             (reconnectAttempts' = 0 /\ currentReconnectInterval' = reconnectInterval)
       /\ (reconnectAttempts = 0 /\ reconnectAttempts' > 0) =>
             (reconnectAttempts' = 1 /\ currentReconnectInterval' = reconnectInterval)
      ]_vars

\* C5 witness: a third consecutive failure has been scheduled, at the cap
C5_Witness ==
    \E i \in 1..Len(emitted) : emitted[i] = Event("reconnecting", 3, maxReconnectInterval)

\* C6: every reconnect timeout that is set is the n-th consecutive attempt's,
\* its delay is base * 2^(n-1) (the browser connector configures no cap), and
\* a `reconnecting` notification carrying attempt n and that delay goes with
\* it (browser connector).
C6_DelayAndNotification ==
    b_scheduled # <<>> =>
        /\ Len(b_scheduled) = 1
        /\ b_scheduled[1] = reconnectDelay * Pow(2, b_reconnectAttempts - 1)
        /\ \E i \in 1..Len(b_emitted) :
             b_emitted[i] = Event("reconnecting", b_reconnectAttempts, b_scheduled[1])

\* the same on the Node connector, whose `reconnecting` event is the only
\* record of the delay of the timeout set with it: attempt n, delay
\* min(50 * 2^(n-1), 200), and 50, 100, 200, 200 for the attempts 1..4
NodeDelayAndNotification ==
    /\ \A i \in 1..Len(emitted) :
         emitted[i].type = "reconnecting" =>
           /\ reconnectTimer \/ callerDisconnected
           /\ emitted[i].attempt >= 1
           /\ emitted[i].delay = BackoffDelay(emitted[i].attempt)
           /\ currentReconnectInterval = emitted[i].delay
    /\ <<BackoffDelay(1), BackoffDelay(2), BackoffDelay(3), BackoffDelay(4)>>
         = <<50, 100, 200, 200>>

\* C7: when the pong timeout that makes maxMissedPongs consecutive misses has
\* fired, the connector has emitted `disconnected`, then `reconnecting` with
\* attempt 1, and has set the reconnect timeout, without any event of the
\* socket.
C7_HeartbeatDeathAnnounced ==
    (b_timerFired = "pong" /\ b_missedPongs >= maxMissedPongs) =>
        /\ b_emitted = <<Event("disconnected", 0, 0),
                         Event("reconnecting", 1, reconnectDelay)>>
        /\ b_reconnectTimers > 0

\* C8: the step in which the server's rejection of the connect request that
\* was sent is handled (it clears shouldReconnect) surfaces exactly one `error`
\* event, and while shouldReconnect is cleared no reconnect is scheduled and
\* none fires.
C8_FatalRejection ==
    [][/\ (b_connectRequestId # 0 /\ b_shouldReconnect /\ ~b_shouldReconnect') =>
             Cardinality(OfType(b_emitted', "error")) = 1
       /\ ~b_shouldReconnect =>
             (b_timerFired' # "reconnect" /\ b_scheduled' = <<>>)
      ]_vars

\* C9: the reply callback of a request is called when a response carrying the
\* id of the pending request arrives, once; a response whose id is not
\* pending (a repeated one included) calls no callback; no callback is ever
\* called twice.
C9_CallbackExactlyOnce ==
    [][/\ \A k \in 1..MaxSends : callbackCalls'[k] <= 1
       /\ \A p \in pendingRequests :
             (emitted' = <<MessageEvent(p.id)>>) =>
                 /\ callbackCalls'[p.k] = callbackCalls[p.k] + 1
                 /\ \A q \in pendingRequests' : q.id # p.id
       /\ \A i \in 0..MaxSends :
             (emitted' = <<MessageEvent(i)>> /\ \A p \in pendingRequests : p.id # i) =>
                 callbackCalls' = callbackCalls
      ]_vars

\* C9 witness: a response carrying the id of a request that was sent with a
\* callback has just been handled, the callback has been called once, and the
\* id is not pending any more
C9_Witness ==
    \E i \in 1..Len(wire) :
        /\ callbackCalls[wire[i].k] = 1
        /\ emitted = <<MessageEvent(wire[i].id)>>
        /\ \A p \in pendingRequests : p.id # wire[i].id

\* C10: the ids given to requests are pairwise distinct and increase, and a
\* request is never registered under an id that is still pending.
C10_UniqueIds ==
    [][/\ \A i, j \in 1..Len(wire') : i # j => wire'[i].id # wire'[j].id
       /\ \A p \in pendingRequests' \ pendingRequests :
             \A q \in pendingRequests : q.id # p.id
       /\ messageId' >= messageId
       /\ \A i \in (Len(wire) + 1)..Len(wire') : wire'[i].id > messageId
       /\ \A p \in pendingRequests' : p.id <= messageId'
      ]_vars

\* C10 witness: two requests are pending at once, under two ids
C10_Witness ==
    /\ Len(wire) >= 2
    /\ \E p, q \in pendingRequests : p.id # q.id

\* C11: in the step in which the Node connector's connection is torn down (it
\* emits `disconnected`, or the caller's disconnect() runs), every pending
\* request is removed from the pending-request map; and when the connector
\* opens, no request registered before that step is still pending.
C11_PendingRejectedOnTeardown ==
    [][/\ (OfType(emitted', "disconnected") # {}
           \/ (callerDisconnected' /\ ~callerDisconnected)) =>
             pendingRequests' = {}
       /\ (emitted' = <<Event("connected", 0, 0)>>) =>
             pendingRequests' \cap pendingRequests = {}
      ]_vars

\* C12: connect() called while an attempt is in progress creates no additional
\* socket: no step leaves behind, unclosed, a socket that is still connecting
\* (only a connect() that replaces this.ws during an attempt does that); and
\* the connect() that follows a disconnect() clears the do-not-reconnect flag.
C12_ConnectIdempotent ==
    [][/\ stale'["CONNECTING"] <= stale["CONNECTING"]
       /\ (callerDisconnected /\ ~callerDisconnected') => shouldReconnect'
      ]_vars

\* C13: the browser connector becomes logically connected (connected flag set,
\* `connected` dispatched, keepalive started) only when a connect request has
\* been handed to the socket it references and the accepted response carries
\* the id of that request; the socket opening alone never sets the flag.
C13_HandshakeGatesConnected ==
    [][/\ (~b_connected /\ b_connected') =>
             (b_requested # 0 /\ b_requested = b_connectRequestId)
       /\ OfType(b_emitted', "connected") # {} =>
             (b_requested # 0 /\ b_requested = b_connectRequestId)
       /\ (b_ws = "CONNECTING" /\ b_ws' = "OPEN") => ~b_connected'
      ]_vars

\* C14: when a close finds the attempt counter at maxReconnectAttempts (and
\* reconnecting is allowed), the browser connector dispatches
\* `reconnect_failed` and sets no reconnect timeout in that step; and from
\* then until the caller calls connect(), no reconnect timeout is set.
C14_ReconnectFailedIsTerminal ==
    [][/\ (/\ OfType(b_emitted', "disconnected") # {}
           /\ b_shouldReconnect
           /\ b_reconnectAttempts >= maxReconnectAttempts) =>
             /\ OfType(b_emitted', "reconnect_failed") # {}
             /\ b_scheduled' = <<>>
       /\ (b_gaveUp /\ b_gaveUp') => b_scheduled' = <<>>
      ]_vars

\* C15: when the socket the Node connector references has closed (it emitted
\* `disconnected`, after an 'error' if the connection was never established)
\* and no disconnect() caused it, the connector eventually starts a new
\* connection attempt (it references a socket that is connecting), unless
\* disconnect() is called first.
C15_EventuallyReconnects ==
    (/\ OfType(emitted, "disconnected") # {}
     /\ ws = "CLOSED"
     /\ ~callerDisconnected)
    ~> (ws = "CONNECTING" \/ callerDisconnected)

\* C16: in a step in which the Node connector emits `connected` (the last
\* statement of _handleOpen), isConnected() is true; in a step in which it
\* emits `disconnected`, isConnected() is false.
C16_EventsAgreeWithIsConnected ==
    /\ OfType(emitted, "connected") # {} => IsConnected(Cur)
    /\ OfType(emitted, "disconnected") # {} => ~IsConnected(Cur)

\* C17: a send() on the browser connector while the connected flag is false or
\* there is no socket throws, hands no frame to the transport, dispatches no
\* event and leaves the connector's fields and timers as they were.
C17_SendFailsFast ==
    [][(BCallSend /\ (~b_connected \/ b_ws = "null")) =>
          /\ b_threw'
          /\ b_out' = <<>>
          /\ b_emitted' = <<>>
          /\ b_scheduled' = <<>>
          /\ UNCHANGED <<b_ws, b_connected, b_reconnectAttempts, b_connectRequestId,
                         b_shouldReconnect, b_pingInterval, b_pongTimeout,
                         b_missedPongs, b_stale, b_reconnectTimers>>
      ]_vars

\* C17 witness: a send() has just thrown on a connector whose socket is open
\* but whose handshake has not completed
C17_Witness ==
    /\ b_threw
    /\ ~b_connected
    /\ b_ws = "OPEN"
    /\ b_out = <<>>

\* C18: when the Node connector has emitted `disconnected` and reconnecting is
\* allowed, the handling of the close has been completed whatever the
\* subscribers of the event did: the reconnect timeout is set.
C18_ListenerExceptionContained ==
    (OfType(emitted, "disconnected") # {} /\ shouldReconnect) => reconnectTimer

(* ------------------------------ ButterStore --------------------------- *)
\* C19: whatever set(), batch() and reset() write under the storage key has
\* neither `messages` nor `activeOrchestrator`; a store that has just been
\* constructed holds the defaults of those two keys, whatever the storage
\* holds, and holds for each other default key the stored value if the
\* storage has one
C19_SensitiveKeysNotPersisted ==
    /\ [](s_op.name = "construct" =>
            \A k \in StoreKeys :
              s_state[k] = IF /\ k \notin NON_PERSISTENT_KEYS
                              /\ s_storage.kind = "object"
                              /\ s_storage.obj[k] # "undefined"
                           THEN s_storage.obj[k]
                           ELSE "default")
    /\ [][(s_storage' # s_storage /\ s_storage'.kind = "object") =>
            /\ s_op'.name \in {"set", "batch", "reset"}
            /\ \A k \in NON_PERSISTENT_KEYS : s_storage'.obj[k] = "undefined"
            /\ \A k \in StoreKeys \ NON_PERSISTENT_KEYS : s_storage'.obj[k] = s_state'[k]]_vars

\* C19 happens: a store is constructed over an item an earlier store wrote;
\* it takes `orchestrators` from the item and has the default `messages`
C19_Witness ==
    /\ s_op.name = "construct"
    /\ s_storage.kind = "object"
    /\ s_storage.obj["messages"] = "undefined"
    /\ s_storage.obj["orchestrators"] = "other"
    /\ s_state["orchestrators"] = "other"
    /\ s_state["messages"] = "default"

\* the calls #notifySubscribers makes for a change of key from previousValue
\* to value: one for each callback subscribed to key, in their order
ExpectedCalls(key, value, previousValue) ==
    [i \in 1..Len(s_subscribers[key]) |->
       [id |-> s_subscribers[key][i], value |-> value, previousValue |-> previousValue]]

\* a set() that finds the value deeply equal to the current one returns
\* false, changes nothing, calls no subscriber and dispatches no event
UnchangedSetIsNoOp ==
    (s_op'.name = "set" /\ deepEqual(s_state[s_op'.key], s_op'.value)) =>
       /\ s_return' = "false"
       /\ s_called' = <<>>
       /\ s_events' = <<>>
       /\ ~s_threw'
       /\ UNCHANGED <<s_state, s_storage, s_subscribers, s_destroyed>>

\* C20 as stated: every set() that changes a key calls each subscriber of the
\* key exactly once with (new value, previous value), a throwing subscriber
\* notwithstanding, and no exception leaves set(); a set() of a deeply equal
\* value is a no-op that returns false
C20_SetNotifiesEverySubscriber ==
    [][/\ (s_op'.name = "set" /\ s_state'[s_op'.key] # s_state[s_op'.key]) =>
            /\ s_called' = ExpectedCalls(s_op'.key, s_op'.value, s_state[s_op'.key])
            /\ ~s_threw'
       /\ UnchangedSetIsNoOp]_vars

\* C20 amended: every set() without options.silent that changes a key calls
\* each subscriber of the key exactly once with (new value, previous value),
\* a throwing subscriber notwithstanding, no exception leaves set() and it
\* returns true; a set() of a deeply equal value is a no-op that returns false
C20_NonSilentSetNotifiesEverySubscriber ==
    [][/\ (/\ s_op'.name = "set"
            /\ ~s_op'.silent
            /\ s_state'[s_op'.key] # s_state[s_op'.key]) =>
            /\ s_called' = ExpectedCalls(s_op'.key, s_op'.value, s_state[s_op'.key])
            /\ s_state'[s_op'.key] = s_op'.value
            /\ s_return' = "true"
            /\ ~s_threw'
       /\ UnchangedSetIsNoOp]_vars

\* C20 happens: a set() changed a key whose first subscriber throws, and the
\* second subscriber was called after it
C20_Witness ==
    /\ s_op.name = "set"
    /\ ~s_op.silent
    /\ s_return = "true"
    /\ ~s_threw
    /\ Len(s_called) = 2
    /\ s_called[1].id = "throwing"
    /\ s_called[2].id = "plain"
    /\ s_called[2].value = s_state[s_op.key]

(* --------------------- claims of the third group ---------------------- *)
\* C21: a send() of a request that expects a reply allocates the request's
\* correlation id and registers its pending request in the step of the call,
\* also when the message is only queued; and the ids of the requests handed to
\* the transport increase in the order of the send() calls
C21_IdAllocatedAtSend ==
    [][/\ \A i \in 1..Len(messageQueue') :
            (sent' = sent + 1 /\ messageQueue'[i].k = sent' /\ messageQueue'[i].cb) =>
               /\ messageId' > messageId
               /\ \E p \in pendingRequests' : p.k = sent' /\ p.id = messageId'
       /\ \A i, j \in 1..Len(wire') :
            wire'[i].k < wire'[j].k => wire'[i].id < wire'[j].id
      ]_vars

\* C22: a step in which the Node connector loses its connection (it emits
\* `disconnected`) or in which disconnect() runs leaves the outbound queue as
\* it was; and the entries that are queued when the connector next opens are
\* handed to the transport in that step, in their order
C22_QueueSurvivesDisconnect ==
    [][/\ (OfType(emitted', "disconnected") # {}
           \/ (callerDisconnected' /\ ~callerDisconnected)) =>
             messageQueue' = messageQueue
       /\ OfType(emitted', "connected") # {} =>
             /\ Len(wire') = Len(wire) + Len(messageQueue)
             /\ \A i \in 1..Len(messageQueue) :
                  wire'[Len(wire) + i].k = messageQueue[i].k
      ]_vars

\* C23: a browser connector whose socket is open while it is not logically
\* connected does not stay so: it becomes connected, or the socket stops
\* being its open socket (the failure is handed over to reconnection)
C23_HandshakeGracePeriod ==
    (b_ws = "OPEN" /\ ~b_connected) ~> (b_connected \/ b_ws # "OPEN")

\* C24: while the browser connector is not connected, neither the keepalive
\* interval nor a pong timeout is pending (so the interval runs only once the
\* connector is connected, and whatever ends the connection clears both), and
\* a pong timeout is pending only while the interval runs
C24_NoHeartbeatUnlessConnected ==
    /\ ~b_connected => (~b_pingInterval /\ ~b_pongTimeout)
    /\ b_pongTimeout => b_pingInterval

\* C24 happens: the keepalive ran with a pong timeout pending, the timeout
\* fired as the last miss allowed, and the connector, not connected any more,
\* has no timer left
C24_Witness ==
    /\ b_timerFired = "pong"
    /\ b_missedPongs >= maxMissedPongs
    /\ ~b_connected
    /\ ~b_pingInterval
    /\ ~b_pongTimeout

\* the step handles a pong frame, through whichever socket delivers it
PongHandled ==
    \E src \in SocketSources :
      /\ SocketIn(BCur, src, "OPEN") \/ SocketIn(BCur, src, "CLOSING")
      /\ BStep(OnMessage(BBegin, [kind |-> "pong", id |-> 0, ok |-> FALSE], b_clock))

C26_OneHandshakeOneHeartbeat ==
    [][/\ (\E i \in 1..Len(b_out') : b_out'[i].type = "connect") =>
             (b_requested = 0 \/ b_connected)
       /\ b_pongTimeout' => b_pingInterval'
      ]_vars

\* C27: a step in which a socket that the Node connector no longer references
\* delivers 'open', 'error' or 'close' (one of the replaced sockets changes
\* state, and none is added) leaves the connected flag, the timers, the
\* attempt counter, the queue and the pending requests as they were
C27_StaleSocketEventsIgnored ==
    [][(/\ stale' # stale
        /\ StaleCount([stale |-> stale']) <= StaleCount([stale |-> stale])
        /\ ws' = ws) =>
          UNCHANGED <<connected, heartbeatTimer, reconnectTimer, connectionTimer,
                      reconnectAttempts, messageQueue, pendingRequests>>
      ]_vars

\* C28: at most one connection timeout of the Node connector is pending (none
\* whose handle connect() has overwritten), and one is pending only while the
\* attempt that armed it is in progress: the socket this.ws references is
\* still connecting
C28_ConnectionTimeoutOwnsAttempt ==
    /\ staleTimers = 0
    /\ connectionTimer => ws = "CONNECTING"

GarbageHandled ==
    \E src \in SocketSources :
      /\ SocketIn(Cur, src, "OPEN") \/ SocketIn(Cur, src, "CLOSING")
      /\ Step(HandleMessage(Begin, [json |-> FALSE, id |-> 0]))

\* C30: a frame that is not valid JSON changes nothing in the Node connector:
\* the step that handles it emits one `error` event and no `message` event,
\* calls no callback, and leaves the socket, the connection state, the timers,
\* the reconnect counters, the outbound queue, the id counter and the
\* pending-request map as they were; the socket it came from is in the state
\* it was in, so its later frames are delivered and handled as before
C30_GarbageFrameChangesNothing ==
    [][GarbageHandled =>
         /\ emitted' = <<Event("error", 0, 0)>>
         /\ UNCHANGED <<ws, connected, shouldReconnect, reconnectAttempts,
                        currentReconnectInterval, reconnectTimer,
                        heartbeatTimer, connectionTimer, staleTimers,
                        lostReconnectTimers, messageQueue, messageId,
                        pendingRequests, callbackCalls, stale, wire, sent>>]_vars

\* C30 happens: a frame that is not valid JSON has been handled (no other
\* step emits `error` alone without a timer having fired) while the connector
\* was connected with a response outstanding
C30_Witness ==
    /\ emitted = <<Event("error", 0, 0)>>
    /\ timerFired = "none"
    /\ connected
    /\ ws = "OPEN"
    /\ heartbeatTimer
    /\ pendingRequests # {}
====
